---- MODULE Spec2Model ----
(***************************************************************************)
(* Model of the Mental Coach chat frontend: the API client (lib/api:       *)
(* getApiBaseUrl, parseErrorMessage, sendMessage) and the conversation     *)
(* controller (app/page.tsx: Home, handleSubmit).                          *)
(*                                                                         *)
(* Strings are TLA+ strings; String.prototype.includes and trim are        *)
(* computed character by character with Len, SubSeq and \o.                *)
(*                                                                         *)
(* One action is one run of JavaScript between two suspension points: the  *)
(* synchronous part of handleSubmit up to `await sendMessage`, the         *)
(* settlement of `fetch`, and the settlement of `response.json()` followed *)
(* by the rest of sendMessage and of handleSubmit (promise continuations   *)
(* run as microtasks, no event is dispatched between them).  The state     *)
(* updates a run makes are committed together (React batches them), and    *)
(* the handlers of the next event read the committed state.                *)
(***************************************************************************)
EXTENDS Integers, Sequences, FiniteSets, TLC

\* ---------------------------------------------------------------- bounds
\* Number of submissions the model accepts (turns of the conversation).
MaxTurns == 2

\* ------------------------------------------------------- string helpers
\* String.prototype.includes: p occurs in s as a contiguous substring (the
\* receiver and the argument are evaluated once, as in a call).
includes(s, p) ==
    \E str \in {s} : \E pat \in {p} :
        \E i \in 1..(Len(str) - Len(pat) + 1) : SubSeq(str, i, i + Len(pat) - 1) = pat

\* White space removed by String.prototype.trim (the characters the model
\* types: space, tab, line feed).
IsWhiteSpace(c) == c \in {" ", "\t", "\n"}

RECURSIVE trimStart(_)
trimStart(s) ==
    IF Len(s) > 0 /\ IsWhiteSpace(SubSeq(s, 1, 1))
    THEN trimStart(SubSeq(s, 2, Len(s)))
    ELSE s

RECURSIVE trimEnd(_)
trimEnd(s) ==
    IF Len(s) > 0 /\ IsWhiteSpace(SubSeq(s, Len(s), Len(s)))
    THEN trimEnd(SubSeq(s, 1, Len(s) - 1))
    ELSE s

\* String.prototype.trim
trim(s) == trimEnd(trimStart(s))

\* Number to decimal string, as the template literal `${response.status}`.
Digit(d) == SubSeq("0123456789", d + 1, d + 1)

RECURSIVE NumberToString(_)
NumberToString(n) ==
    IF n < 10 THEN Digit(n)
    ELSE NumberToString(n \div 10) \o Digit(n % 10)

\* ---------------------------------------------------- lib/api constants
QuotaMessage ==
    "OpenAI API quota exceeded. Please check your OpenAI account billing and usage limits. You may need to add payment information or upgrade your plan."

MissingKeyMessage ==
    "OpenAI API key is not configured. Please set the OPENAI_API_KEY environment variable in your backend."

InvalidKeyMessage ==
    "Invalid OpenAI API key. Please check your API key configuration."

RateLimitMessage ==
    "Rate limit exceeded. Please wait a moment and try again."

ConnectivityMessage ==
    "Unable to connect to the server. Please make sure the backend is running on http://localhost:8000"

UnexpectedMessage == "An unexpected error occurred"

FallbackMessage == "Failed to get response. Please try again."

Greeting ==
    "Hello! I'm your supportive mental coach. I'm here to help you with stress, motivation, habits, and confidence. What's on your mind today?"

\* A thrown or rejected JavaScript value: an Error carrying a message, or
\* some other value (`error instanceof Error` is false).
Error(message) == [isError |-> TRUE, message |-> message]

\* ------------------------------------------------------- input domains
\* Texts the user can have in the input box.
Inputs == {"", " \t", " hello\n"}

\* Instants the clock (new Date()) can show.
Instants == {0, 1}

\* HTTP status codes the backend answers with.
Statuses == {200, 401, 429, 500}

\* `reply` texts of a successful ChatResponse.
Replies == {"", "Let's break that down together."}

\* `detail` texts of a ChatError.
Details ==
    {"", "rate limit exceeded", "fetch failed",
     "Error: quota exceeded, insufficient_quota", "billing hard limit reached"}

\* Messages of the TypeError a rejected fetch carries (Chromium, WebKit).
TransportMessages == {"Failed to fetch", "Load failed"}

\* Message of the SyntaxError a rejected response.json() carries.
JsonSyntaxErrorMessage == "Unexpected end of JSON input"

\* Response bodies: JSON {"reply": text}, JSON {"detail": text}, a JSON object
\* without `detail`, or a body that is absent or not JSON.
Body(kind, text) == [kind |-> kind, text |-> text]

NoBody == Body("none", "")

OkBodies == {Body("reply", r) : r \in Replies} \cup {Body("invalid", "")}

ErrorBodies ==
    {Body("detail", d) : d \in Details} \cup {Body("nodetail", ""), Body("invalid", "")}

\* --------------------------------------------------------- lib/api code
\* getApiBaseUrl with the browser test made before the override test.
getApiBaseUrl_BrowserFirst(environment, win) ==
    IF win # <<>>
    THEN IF win[1] = "localhost" \/ win[1] = "127.0.0.1"
         THEN "http://localhost:8000"
         ELSE ""
    ELSE IF environment # <<>> /\ environment[1] # ""
    THEN environment[1]
    ELSE "http://localhost:8000"

\* getApiBaseUrl: environment is process.env.NEXT_PUBLIC_API_URL (<<>> when
\* undefined; the empty string is falsy too), win is <<>> when
\* `typeof window === 'undefined'` and else <<window.location.hostname>>.
getApiBaseUrl(environment, win) ==
    IF environment # <<>> /\ environment[1] # ""
    THEN environment[1]
    ELSE IF win # <<>>
    THEN IF win[1] = "localhost" \/ win[1] = "127.0.0.1"
         THEN "http://localhost:8000"
         ELSE ""
    ELSE "http://localhost:8000"

\* parseErrorMessage with the missing-key test matching 'API key' too.
parseErrorMessage_AnyCaseKey(errorDetail) ==
    IF includes(errorDetail, "insufficient_quota") \/ includes(errorDetail, "quota")
    THEN QuotaMessage
    ELSE IF \/ includes(errorDetail, "OPENAI_API_KEY")
            \/ includes(errorDetail, "api key")
            \/ includes(errorDetail, "API key")
    THEN MissingKeyMessage
    ELSE IF \/ includes(errorDetail, "401")
            \/ includes(errorDetail, "unauthorized")
            \/ includes(errorDetail, "Invalid API key")
    THEN InvalidKeyMessage
    ELSE IF includes(errorDetail, "429") \/ includes(errorDetail, "rate limit")
    THEN RateLimitMessage
    ELSE errorDetail

\* parseErrorMessage with the rate-limit test moved to the front.
parseErrorMessage_RateLimitFirst(errorDetail) ==
    IF includes(errorDetail, "429") \/ includes(errorDetail, "rate limit")
    THEN RateLimitMessage
    ELSE IF includes(errorDetail, "insufficient_quota") \/ includes(errorDetail, "quota")
    THEN QuotaMessage
    ELSE IF includes(errorDetail, "OPENAI_API_KEY") \/ includes(errorDetail, "api key")
    THEN MissingKeyMessage
    ELSE IF \/ includes(errorDetail, "401")
            \/ includes(errorDetail, "unauthorized")
            \/ includes(errorDetail, "Invalid API key")
    THEN InvalidKeyMessage
    ELSE errorDetail

\* parseErrorMessage with the quota test matching a capitalised 'Quota' too.
parseErrorMessage_IgnoreCase(errorDetail) ==
    IF \/ includes(errorDetail, "insufficient_quota")
       \/ includes(errorDetail, "quota")
       \/ includes(errorDetail, "Quota")
    THEN QuotaMessage
    ELSE IF includes(errorDetail, "OPENAI_API_KEY") \/ includes(errorDetail, "api key")
    THEN MissingKeyMessage
    ELSE IF \/ includes(errorDetail, "401")
            \/ includes(errorDetail, "unauthorized")
            \/ includes(errorDetail, "Invalid API key")
    THEN InvalidKeyMessage
    ELSE IF includes(errorDetail, "429") \/ includes(errorDetail, "rate limit")
    THEN RateLimitMessage
    ELSE errorDetail

\* parseErrorMessage(errorDetail): ordered substring tests, first match wins.
parseErrorMessage(errorDetail) ==
    IF includes(errorDetail, "insufficient_quota") \/ includes(errorDetail, "quota")
    THEN QuotaMessage
    ELSE IF includes(errorDetail, "OPENAI_API_KEY") \/ includes(errorDetail, "api key")
    THEN MissingKeyMessage
    ELSE IF \/ includes(errorDetail, "401")
            \/ includes(errorDetail, "unauthorized")
            \/ includes(errorDetail, "Invalid API key")
    THEN InvalidKeyMessage
    ELSE IF includes(errorDetail, "429") \/ includes(errorDetail, "rate limit")
    THEN RateLimitMessage
    ELSE errorDetail

\* response.ok
ResponseOk(status) == status \in 200..299

\* errorData with the status code left out of the synthesized detail.
errorData_StatusDropped(status, body) ==
    IF body.kind = "invalid"
    THEN <<"HTTP error! status: ">>
    ELSE IF body.kind = "detail" THEN <<body.text>>
    ELSE <<>>

\* errorData: `await response.json().catch(() => ({detail: ...}))`, as an
\* optional detail (<<>> when the parsed object has no `detail`).
errorData(status, body) ==
    IF body.kind = "invalid"
    THEN <<"HTTP error! status: " \o NumberToString(status)>>
    ELSE IF body.kind = "detail" THEN <<body.text>>
    ELSE <<>>

\* errorData.detail || `Request failed with status ${response.status}`
\* (an absent and an empty detail are both falsy).
errorDetailOf(status, body) ==
    LET data == errorData(status, body) IN
    IF data # <<>> /\ data[1] # "" THEN data[1]
    ELSE "Request failed with status " \o NumberToString(status)

\* The catch block of sendMessage: what it throws for the caught value.
sendMessageCatch(error) ==
    IF error.isError
    THEN IF includes(error.message, "fetch") \/ includes(error.message, "Failed to fetch")
         THEN Error(ConnectivityMessage)
         ELSE error
    ELSE Error(UnexpectedMessage)

\* Outcome of sendMessage: a returned ChatResponse or a thrown value.
Returned(reply) == [returned |-> TRUE, reply |-> reply, thrown |-> Error("")]

Thrown(error) == [returned |-> FALSE, reply |-> "", thrown |-> error]

\* sendMessage from the point where `await fetch(...)` rejects with `error`.
sendMessageOnReject(error) == Thrown(sendMessageCatch(error))

\* sendMessage from the point where the body of the response has been read:
\* the try block from `if (!response.ok)` on, then the catch block for
\* whatever the try block throws.
sendMessageOnBody(status, body) ==
    IF ~ResponseOk(status)
    THEN Thrown(sendMessageCatch(Error(parseErrorMessage(errorDetailOf(status, body)))))
    ELSE IF body.kind = "invalid"
    THEN Thrown(sendMessageCatch(Error(JsonSyntaxErrorMessage)))
    ELSE Returned(body.text)

\* ------------------------------------------------------------- state
VARIABLES
    messages,     \* useState<Message[]>: the message log
    input,        \* useState(''): the input buffer
    isLoading,    \* useState(false): the Sending flag
    error,        \* useState<string | null>: <<>> is null, <<e>> the text e
    now,          \* the clock read by new Date()
    inflight,     \* sendMessage calls that have not settled, oldest first
    calls,        \* number of sendMessage calls made so far
    ev,           \* the handler or continuation that ran last
    errorDetail,  \* argument of a stand-alone parseErrorMessage call
    classified,   \* its result, <<>> before the call
    reclassified, \* parseErrorMessage of that result, <<>> before the call
    narration,    \* the narration handleSubmit builds for that result
    env,          \* process.env.NEXT_PUBLIC_API_URL: <<>> is undefined
    window,       \* <<>> without a browser, else <<window.location.hostname>>
    API_BASE_URL, \* the module constant, <<>> before the module is loaded
    url           \* the request URL of sendMessage, <<>> before it is built

controllerVars == <<messages, input, isLoading, error, now, inflight, calls, ev>>

classifyVars == <<errorDetail, classified, reclassified, narration>>

urlVars == <<env, window, API_BASE_URL, url>>

vars == <<controllerVars, classifyVars, urlVars>>

\* interface Message
Message(role, content, timestamp) ==
    [role |-> role, content |-> content, timestamp |-> timestamp]

\* A pending sendMessage call: stage "fetch" while `await fetch` is pending,
\* stage "body" while `await response.json()` is pending.
Request(message, stage, status, body) ==
    [message |-> message, stage |-> stage, status |-> status, body |-> body]

Remove(seq, i) == SubSeq(seq, 1, i - 1) \o SubSeq(seq, i + 1, Len(seq))

Last(seq) == seq[Len(seq)]

\* The useState initial values of Home.
InitController ==
    /\ now \in Instants
    /\ messages = <<Message("assistant", Greeting, now)>>
    /\ input = ""
    /\ isLoading = FALSE
    /\ error = <<>>
    /\ inflight = <<>>
    /\ calls = 0
    /\ ev = "init"

\* No stand-alone classifier call.
IdleClassify ==
    /\ errorDetail = ""
    /\ classified = <<>>
    /\ reclassified = <<>>
    /\ narration = <<>>

\* The module loaded outside a browser with no override configured.
IdleUrl ==
    /\ env = <<>>
    /\ window = <<>>
    /\ API_BASE_URL = <<"http://localhost:8000">>
    /\ url = <<>>

Init ==
    /\ InitController
    /\ IdleClassify
    /\ IdleUrl

\* ------------------------------------------------------ app/page.tsx code
\* The guard of handleSubmit without the trim: `if (!input || isLoading)`.
SubmitIgnored_NoTrim == input = "" \/ isLoading

\* The guard of handleSubmit: `if (!input.trim() || isLoading) return`.
SubmitIgnored == trim(input) = "" \/ isLoading

\* The error narration with the key test in lower case.
userFriendlyError_LowercaseKey(errorMessage) ==
    IF includes(errorMessage, "quota") \/ includes(errorMessage, "billing")
    THEN "I'm unable to respond right now due to an API quota issue. " \o errorMessage
    ELSE IF includes(errorMessage, "api key")
    THEN "Configuration issue: " \o errorMessage
    ELSE "Sorry, I encountered an error: " \o errorMessage \o ". Please try again."

\* The error narration without the 'billing' test.
userFriendlyError_NoBilling(errorMessage) ==
    IF includes(errorMessage, "quota")
    THEN "I'm unable to respond right now due to an API quota issue. " \o errorMessage
    ELSE IF includes(errorMessage, "API key")
    THEN "Configuration issue: " \o errorMessage
    ELSE "Sorry, I encountered an error: " \o errorMessage \o ". Please try again."

\* The error narration built in the catch block of handleSubmit.
userFriendlyError(errorMessage) ==
    IF includes(errorMessage, "quota") \/ includes(errorMessage, "billing")
    THEN "I'm unable to respond right now due to an API quota issue. " \o errorMessage
    ELSE IF includes(errorMessage, "API key")
    THEN "Configuration issue: " \o errorMessage
    ELSE "Sorry, I encountered an error: " \o errorMessage \o ". Please try again."

\* `err instanceof Error ? err.message : 'Failed to get response...'`
errorMessageOf(err) == IF err.isError THEN err.message ELSE FallbackMessage

\* The clock moves on.
Tick ==
    /\ \E t \in Instants : t > now /\ now' = t
    /\ UNCHANGED <<messages, input, isLoading, error, inflight, calls, ev,
                   classifyVars, urlVars>>

\* onChange of the input box, which is disabled while isLoading.
HandleChange(text) ==
    /\ ~isLoading
    /\ input' = text
    /\ ev' = "change"
    /\ UNCHANGED <<messages, isLoading, error, now, inflight, calls,
                   classifyVars, urlVars>>

\* handleSubmit without `setIsLoading(true)`.
HandleSubmit_NoLoadingFlag ==
    IF SubmitIgnored
    THEN /\ ev' = "ignored"
         /\ UNCHANGED <<messages, input, isLoading, error, now, inflight, calls,
                        classifyVars, urlVars>>
    ELSE LET userMessage == Message("user", trim(input), now) IN
         /\ calls < MaxTurns
         /\ messages' = Append(messages, userMessage)
         /\ input' = ""
         /\ error' = <<>>
         /\ inflight' = Append(inflight, Request(userMessage.content, "fetch", 0, NoBody))
         /\ calls' = calls + 1
         /\ ev' = "submitted"
         /\ UNCHANGED <<isLoading, now, classifyVars, urlVars>>

\* handleSubmit with the untrimmed input as the content of the user Message.
HandleSubmit_Untrimmed ==
    IF SubmitIgnored
    THEN /\ ev' = "ignored"
         /\ UNCHANGED <<messages, input, isLoading, error, now, inflight, calls,
                        classifyVars, urlVars>>
    ELSE LET userMessage == Message("user", input, now) IN
         /\ calls < MaxTurns
         /\ messages' = Append(messages, userMessage)
         /\ input' = ""
         /\ isLoading' = TRUE
         /\ error' = <<>>
         /\ inflight' = Append(inflight, Request(userMessage.content, "fetch", 0, NoBody))
         /\ calls' = calls + 1
         /\ ev' = "submitted"
         /\ UNCHANGED <<now, classifyVars, urlVars>>

\* handleSubmit without `setError(null)`.
HandleSubmit_KeepsError ==
    IF SubmitIgnored
    THEN /\ ev' = "ignored"
         /\ UNCHANGED <<messages, input, isLoading, error, now, inflight, calls,
                        classifyVars, urlVars>>
    ELSE LET userMessage == Message("user", trim(input), now) IN
         /\ calls < MaxTurns
         /\ messages' = Append(messages, userMessage)
         /\ input' = ""
         /\ isLoading' = TRUE
         /\ inflight' = Append(inflight, Request(userMessage.content, "fetch", 0, NoBody))
         /\ calls' = calls + 1
         /\ ev' = "submitted"
         /\ UNCHANGED <<error, now, classifyVars, urlVars>>

\* handleSubmit up to `await sendMessage(userMessage.content)`.
HandleSubmit ==
    IF SubmitIgnored
    THEN /\ ev' = "ignored"
         /\ UNCHANGED <<messages, input, isLoading, error, now, inflight, calls,
                        classifyVars, urlVars>>
    ELSE LET userMessage == Message("user", trim(input), now) IN
         /\ calls < MaxTurns
         /\ messages' = Append(messages, userMessage)
         /\ input' = ""
         /\ isLoading' = TRUE
         /\ error' = <<>>
         /\ inflight' = Append(inflight, Request(userMessage.content, "fetch", 0, NoBody))
         /\ calls' = calls + 1
         /\ ev' = "submitted"
         /\ UNCHANGED <<now, classifyVars, urlVars>>

\* The rest of handleSubmit with a catch block that sets the error but
\* appends no Message.
HandleSettled_SilentFailure(i, outcome) ==
    /\ IF outcome.returned
       THEN /\ messages' = Append(messages, Message("assistant", outcome.reply, now))
            /\ UNCHANGED error
       ELSE /\ error' = <<errorMessageOf(outcome.thrown)>>
            /\ UNCHANGED messages
    /\ isLoading' = FALSE
    /\ inflight' = Remove(inflight, i)
    /\ UNCHANGED <<input, now, calls, classifyVars, urlVars>>

\* The rest of handleSubmit with an empty reply treated as a failure.
HandleSettled_EmptyReplyFails(i, outcome) ==
    /\ IF outcome.returned /\ outcome.reply # ""
       THEN /\ messages' = Append(messages, Message("assistant", outcome.reply, now))
            /\ UNCHANGED error
       ELSE LET errorMessage ==
                    IF outcome.returned THEN FallbackMessage
                    ELSE errorMessageOf(outcome.thrown) IN
            /\ error' = <<errorMessage>>
            /\ messages' =
                   Append(messages, Message("assistant", userFriendlyError(errorMessage), now))
    /\ isLoading' = FALSE
    /\ inflight' = Remove(inflight, i)
    /\ UNCHANGED <<input, now, calls, classifyVars, urlVars>>

\* The rest of handleSubmit with a fixed narration that leaves the error
\* text out.
HandleSettled_FixedNarration(i, outcome) ==
    /\ IF outcome.returned
       THEN /\ messages' = Append(messages, Message("assistant", outcome.reply, now))
            /\ UNCHANGED error
       ELSE /\ error' = <<errorMessageOf(outcome.thrown)>>
            /\ messages' = Append(messages, Message("assistant", FallbackMessage, now))
    /\ isLoading' = FALSE
    /\ inflight' = Remove(inflight, i)
    /\ UNCHANGED <<input, now, calls, classifyVars, urlVars>>

\* The rest of handleSubmit with the narration put in place of the last
\* Message instead of after it.
HandleSettled_ReplacesLast(i, outcome) ==
    /\ IF outcome.returned
       THEN /\ messages' = Append(messages, Message("assistant", outcome.reply, now))
            /\ UNCHANGED error
       ELSE LET errorMessage == errorMessageOf(outcome.thrown) IN
            /\ error' = <<errorMessage>>
            /\ messages' =
                   Append(SubSeq(messages, 1, Len(messages) - 1),
                          Message("assistant", userFriendlyError(errorMessage), now))
    /\ isLoading' = FALSE
    /\ inflight' = Remove(inflight, i)
    /\ UNCHANGED <<input, now, calls, classifyVars, urlVars>>

\* The rest of handleSubmit with a catch block that sends the message again.
HandleSettled_RetryOnFailure(i, outcome) ==
    IF outcome.returned
    THEN /\ messages' = Append(messages, Message("assistant", outcome.reply, now))
         /\ isLoading' = FALSE
         /\ inflight' = Remove(inflight, i)
         /\ UNCHANGED <<error, input, now, calls, classifyVars, urlVars>>
    ELSE /\ error' = <<errorMessageOf(outcome.thrown)>>
         /\ inflight' = [inflight EXCEPT ![i] = Request(@.message, "fetch", 0, NoBody)]
         /\ calls' = calls + 1
         /\ UNCHANGED <<messages, isLoading, input, now, classifyVars, urlVars>>

\* The rest of handleSubmit without the finally block.
HandleSettled_NoFinally(i, outcome) ==
    /\ IF outcome.returned
       THEN /\ messages' = Append(messages, Message("assistant", outcome.reply, now))
            /\ UNCHANGED error
       ELSE LET errorMessage == errorMessageOf(outcome.thrown) IN
            /\ error' = <<errorMessage>>
            /\ messages' =
                   Append(messages, Message("assistant", userFriendlyError(errorMessage), now))
    /\ inflight' = Remove(inflight, i)
    /\ UNCHANGED <<isLoading, input, now, calls, classifyVars, urlVars>>

\* The rest of handleSubmit once sendMessage call i has settled with outcome:
\* the try block after the await or the catch block, then the finally block.
HandleSettled(i, outcome) ==
    /\ IF outcome.returned
       THEN /\ messages' = Append(messages, Message("assistant", outcome.reply, now))
            /\ UNCHANGED error
       ELSE LET errorMessage == errorMessageOf(outcome.thrown) IN
            /\ error' = <<errorMessage>>
            /\ messages' =
                   Append(messages, Message("assistant", userFriendlyError(errorMessage), now))
    /\ isLoading' = FALSE
    /\ inflight' = Remove(inflight, i)
    /\ UNCHANGED <<input, now, calls, classifyVars, urlVars>>

\* `await fetch(url, ...)` rejects: the request never reached the server.
FetchRejects(i, message) ==
    /\ i \in 1..Len(inflight)
    /\ inflight[i].stage = "fetch"
    /\ \E outcome \in {sendMessageOnReject(Error(message))} : HandleSettled(i, outcome)
    /\ ev' = "fetchRejected"

\* `await fetch(url, ...)` resolves with a response; its body is read next.
FetchResolves(i, status, body) ==
    /\ i \in 1..Len(inflight)
    /\ inflight[i].stage = "fetch"
    /\ body \in (IF ResponseOk(status) THEN OkBodies ELSE ErrorBodies)
    /\ inflight' = [inflight EXCEPT ![i] = Request(@.message, "body", status, body)]
    /\ ev' = "fetchResolved"
    /\ UNCHANGED <<messages, input, isLoading, error, now, calls,
                   classifyVars, urlVars>>

\* `await response.json()` settles and sendMessage and handleSubmit finish.
BodySettles(i) ==
    /\ i \in 1..Len(inflight)
    /\ inflight[i].stage = "body"
    /\ \E outcome \in {sendMessageOnBody(inflight[i].status, inflight[i].body)} :
           HandleSettled(i, outcome)
    /\ ev' = "bodySettled"

Next ==
    \/ Tick
    \/ \E text \in Inputs : HandleChange(text)
    \/ HandleSubmit
    \/ \E i \in 1..Len(inflight) : \E message \in TransportMessages : FetchRejects(i, message)
    \/ \E i \in 1..Len(inflight) : \E status \in Statuses :
           \E body \in OkBodies \cup ErrorBodies : FetchResolves(i, status, body)
    \/ \E i \in 1..Len(inflight) : BodySettles(i)

Spec == Init /\ [][Next]_vars

\* A pending request settles: fetch resolves or rejects, or the body is read.
Settle ==
    \E i \in 1..Len(inflight) :
        \/ \E message \in TransportMessages : FetchRejects(i, message)
        \/ \E status \in Statuses :
               \E body \in OkBodies \cup ErrorBodies : FetchResolves(i, status, body)
        \/ BodySettles(i)

\* The controller when every dispatched request eventually resolves.
SpecLive == Init /\ [][Next]_vars /\ WF_vars(Settle)

\* ------------------------------------- parseErrorMessage on its own
\* Pieces details are put together from: every trigger substring, a
\* differently cased trigger and neutral text.
Fragments ==
    {"", "xyz", "Quota", "quota", "insufficient_quota", "OPENAI_API_KEY", "api key",
     "401", "unauthorized", "Invalid API key", "429", "rate limit"}

ClassifyInputs ==
    {a \o " " \o b : a \in Fragments, b \in Fragments}
        \cup Details
        \cup {QuotaMessage, MissingKeyMessage, InvalidKeyMessage, RateLimitMessage,
              ConnectivityMessage, "HTTP error! status: 500",
              "random backend failure xyz", "missing API key header"}

InitClassify ==
    /\ InitController
    /\ IdleUrl
    /\ errorDetail \in ClassifyInputs
    /\ classified = <<>>
    /\ reclassified = <<>>
    /\ narration = <<>>

\* One call parseErrorMessage(errorDetail).
Classify ==
    /\ classified = <<>>
    /\ classified' = <<parseErrorMessage(errorDetail)>>
    /\ UNCHANGED <<controllerVars, urlVars, errorDetail, reclassified, narration>>

\* A second call, on the result of the first.
Reclassify ==
    /\ classified # <<>>
    /\ reclassified = <<>>
    /\ reclassified' = <<parseErrorMessage(classified[1])>>
    /\ UNCHANGED <<controllerVars, urlVars, errorDetail, classified, narration>>

\* sendMessage throws the classified text and handleSubmit narrates what it
\* catches: the text E of the caught error and the narration built from it.
Narrate ==
    /\ classified # <<>>
    /\ narration = <<>>
    /\ \E E \in {errorMessageOf(sendMessageCatch(Error(classified[1])))} :
           narration' = <<E, userFriendlyError(E)>>
    /\ UNCHANGED <<controllerVars, urlVars, errorDetail, classified, reclassified>>

NextClassify == Classify \/ Reclassify \/ Narrate

SpecClassify == InitClassify /\ [][NextClassify]_vars

\* ------------------------------------------ getApiBaseUrl on its own
\* Values of NEXT_PUBLIC_API_URL.
EnvValues ==
    {<<>>, <<"">>, <<"https://api.example.com">>, <<"http://localhost:9000">>,
     <<"/backend">>}

\* Execution contexts: no browser, or a browser on the given host.
WindowValues ==
    {<<>>, <<"localhost">>, <<"127.0.0.1">>, <<"example.vercel.app">>,
     <<"localhost.example.com">>, <<"192.168.1.10">>, <<"0.0.0.0">>, <<"[::1]">>}

InitBaseUrl ==
    /\ InitController
    /\ IdleClassify
    /\ env \in EnvValues
    /\ window \in WindowValues
    /\ API_BASE_URL = <<>>
    /\ url = <<>>

\* The module is loaded: `const API_BASE_URL = getApiBaseUrl()`.
LoadModule ==
    /\ API_BASE_URL = <<>>
    /\ API_BASE_URL' = <<getApiBaseUrl(env, window)>>
    /\ UNCHANGED <<controllerVars, classifyVars, env, window, url>>

\* sendMessage builds its URL: `${API_BASE_URL}/api/chat`.
BuildUrl ==
    /\ API_BASE_URL # <<>>
    /\ url = <<>>
    /\ url' = <<API_BASE_URL[1] \o "/api/chat">>
    /\ UNCHANGED <<controllerVars, classifyVars, env, window, API_BASE_URL>>

NextBaseUrl == LoadModule \/ BuildUrl

SpecBaseUrl == InitBaseUrl /\ [][NextBaseUrl]_vars

\* ---------------------------------------------------------------- claims
\* Number of entries of the log with the given role.
CountRole(role) == Cardinality({k \in 1..Len(messages) : messages[k].role = role})

\* The text is empty or consists of white space only.
IsBlank(s) == \A k \in 1..Len(s) : SubSeq(s, k, k) \in {" ", "\t", "\n"}

\* The step runs handleSubmit.
SubmitStep == ev' \in {"ignored", "submitted"} /\ now' = now

\* The step settles the only pending sendMessage call.
SettleStep == Len(inflight) = 1 /\ inflight' = <<>>

\* The step settles the only pending call after its response body was read.
BodyStep == SettleStep /\ inflight[1].stage = "body"

\* C1: every accepted submission appends exactly one user Message at once and
\* exactly one assistant Message when its request settles, so the log holds
\* the greeting, one user Message per accepted turn and one assistant Message
\* per completed turn: its length is 1 + 2n after n completed turns.
C1_LogGrowsByTwoPerTurn ==
    /\ CountRole("user") = calls
    /\ CountRole("assistant") = 1 + calls - Len(inflight)
    /\ Len(messages) = 1 + 2 * calls - Len(inflight)
    /\ inflight = <<>> => Len(messages) = 1 + 2 * calls

C1_Witness ==
    /\ calls = 2
    /\ inflight = <<>>
    /\ Len(messages) = 5
    /\ error # <<>>

\* C2: at most one request is in flight, and isLoading is true exactly while
\* one is.
C2_OneRequestInFlight ==
    /\ Len(inflight) <= 1
    /\ isLoading <=> Len(inflight) = 1

C2_Witness ==
    /\ isLoading
    /\ Len(inflight) = 1
    /\ ev = "ignored"

\* C3: a submission with blank input, or one made while Sending, changes
\* neither the log, isLoading, the error, nor the input, and sends nothing.
C3_IgnoredSubmitIsNoOp ==
    [][(SubmitStep /\ (IsBlank(input) \/ isLoading))
          => UNCHANGED <<messages, isLoading, error, input, inflight, calls>>]_vars

C3_Witness ==
    /\ ev = "ignored"
    /\ input = " \t"
    /\ ~isLoading

\* C4: a non-success response whose body is a ChatError with detail d makes
\* sendMessage fail with exactly parseErrorMessage(d), for every d, and never
\* with the connectivity message.
C4_HttpDetailIsClassified ==
    [][(BodyStep /\ ~ResponseOk(inflight[1].status) /\ inflight[1].body.kind = "detail")
          => /\ error' = <<parseErrorMessage(inflight[1].body.text)>>
             /\ error' # <<ConnectivityMessage>>]_vars

\* C5: every rejected fetch makes sendMessage fail with the connectivity
\* message, and no HTTP response does.
C5_TransportFailureIsConnectivity ==
    [][/\ (SettleStep /\ inflight[1].stage = "fetch") => error' = <<ConnectivityMessage>>
       /\ BodyStep => error' # <<ConnectivityMessage>>]_vars

\* The status codes of the model as they are written in decimal.
StatusLiteral(c) ==
    CASE c = 200 -> "200" [] c = 401 -> "401" [] c = 429 -> "429" [] c = 500 -> "500"

\* C6: a non-success response with status c whose body is absent or not JSON
\* makes sendMessage fail with parseErrorMessage("HTTP error! status: <c>"),
\* which for 500 is that text itself.
C6_UnparsableBodyDetail ==
    [][(BodyStep /\ ~ResponseOk(inflight[1].status) /\ inflight[1].body.kind = "invalid")
          => /\ error' = <<parseErrorMessage("HTTP error! status: "
                                                   \o StatusLiteral(inflight[1].status))>>
             /\ inflight[1].status = 500 => error' = <<"HTTP error! status: 500">>]_vars

C6_Witness ==
    /\ ev = "bodySettled"
    /\ error = <<"HTTP error! status: 500">>

\* The classifier's categories in priority order: trigger substrings and the
\* fixed message of each.
Categories ==
    << [triggers |-> {"insufficient_quota", "quota"}, message |-> QuotaMessage],
       [triggers |-> {"OPENAI_API_KEY", "api key"}, message |-> MissingKeyMessage],
       [triggers |-> {"401", "unauthorized", "Invalid API key"}, message |-> InvalidKeyMessage],
       [triggers |-> {"429", "rate limit"}, message |-> RateLimitMessage] >>

\* The categories of which some trigger occurs in detail.
Matching(detail) ==
    {k \in 1..Len(Categories) : \E t \in Categories[k].triggers : includes(detail, t)}

\* C7: parseErrorMessage returns the message of the first category, in the
\* order quota, missing key, invalid credential, rate limit, of which a
\* trigger occurs in the detail.
C7_FirstMatchingCategoryWins ==
    classified # <<>> =>
        /\ \A k \in Matching(errorDetail) :
               (\A j \in Matching(errorDetail) : k <= j)
                   => classified = <<Categories[k].message>>
        /\ errorDetail = "Error: quota exceeded, insufficient_quota"
               => classified = <<QuotaMessage>>

C7_Witness ==
    /\ classified = <<QuotaMessage>>
    /\ includes(errorDetail, "quota")
    /\ includes(errorDetail, "429")

\* C8: parseErrorMessage returns a detail in which no trigger occurs
\* unchanged.
C8_NoMatchPassesThrough ==
    (classified # <<>> /\ Matching(errorDetail) = {}) => classified = <<errorDetail>>

C8_Witness ==
    /\ errorDetail = "random backend failure xyz"
    /\ classified = <<"random backend failure xyz">>

\* C9: when the request succeeds with reply r, the handler appends an
\* assistant Message with content exactly r, clears isLoading and leaves the
\* error empty.
C9_ReplyAppendedVerbatim ==
    [][(BodyStep /\ ResponseOk(inflight[1].status) /\ inflight[1].body.kind = "reply")
          => /\ Len(messages') = Len(messages) + 1
             /\ SubSeq(messages', 1, Len(messages)) = messages
             /\ Last(messages').role = "assistant"
             /\ Last(messages').content = inflight[1].body.text
             /\ ~isLoading'
             /\ error' = <<>>]_vars

C9_Witness ==
    /\ ev = "bodySettled"
    /\ Last(messages).role = "assistant"
    /\ Last(messages).content = ""
    /\ ~isLoading
    /\ error = <<>>

\* The framing of an error text E: quota framing if E contains 'quota' or
\* 'billing', else configuration framing if it contains 'API key', else the
\* generic framing.
Framed(E) ==
    CASE includes(E, "quota") \/ includes(E, "billing")
             -> "I'm unable to respond right now due to an API quota issue. " \o E
      [] ~(includes(E, "quota") \/ includes(E, "billing")) /\ includes(E, "API key")
             -> "Configuration issue: " \o E
      [] OTHER -> "Sorry, I encountered an error: " \o E \o ". Please try again."

\* The texts sendMessage can fail with when the pending call settles.
FailureTexts ==
    IF inflight[1].stage = "fetch"
    THEN {sendMessageOnReject(Error(m)).thrown.message : m \in TransportMessages}
    ELSE {sendMessageOnBody(inflight[1].status, inflight[1].body).thrown.message}

\* The pending call settles with a failure.
FailureStep ==
    /\ SettleStep
    /\ inflight[1].stage = "body" =>
           ~sendMessageOnBody(inflight[1].status, inflight[1].body).returned

\* C10: when the request fails with text E, the handler sets the error to E,
\* appends one assistant Message holding E in the framing chosen from E, and
\* clears isLoading; HTTP 429 with detail "rate limit exceeded" gives the
\* rate-limit message.
C10_FailureNarrated ==
    [][FailureStep
          => /\ error' # <<>>
             /\ error'[1] \in FailureTexts
             /\ Len(messages') = Len(messages) + 1
             /\ SubSeq(messages', 1, Len(messages)) = messages
             /\ Last(messages').role = "assistant"
             /\ Last(messages').content = Framed(error'[1])
             /\ includes(Last(messages').content, error'[1])
             /\ ~isLoading'
             /\ (/\ inflight[1].stage = "body"
                 /\ inflight[1].status = 429
                 /\ inflight[1].body = Body("detail", "rate limit exceeded"))
                    => /\ error' = <<RateLimitMessage>>
                       /\ includes(Last(messages').content, RateLimitMessage)]_vars

C10_Witness ==
    /\ ev = "bodySettled"
    /\ error = <<RateLimitMessage>>
    /\ Last(messages).content
           = "Sorry, I encountered an error: " \o RateLimitMessage \o ". Please try again."
    /\ ~isLoading

\* C11: the log only grows at its end: every step keeps the log it found as
\* a prefix of the new log, and the first entry stays the assistant greeting.
C11_LogIsAppendOnly ==
    [][/\ Len(messages') >= Len(messages)
       /\ SubSeq(messages', 1, Len(messages)) = messages
       /\ messages'[1].role = "assistant"
       /\ messages'[1].content = Greeting]_vars

C11_Witness ==
    /\ Len(messages) = 5
    /\ messages[1].content = Greeting
    /\ messages[2].role = "user"
    /\ ev = "bodySettled"

\* C12: with a standing error the controller is not Sending, a submission
\* of non-blank input is accepted and clears the error at once, and the error
\* becomes non-empty again only by the failure of a request.
C12_NextSubmissionClearsError ==
    [][/\ error # <<>> => ~isLoading
       /\ (SubmitStep /\ error # <<>> /\ ~IsBlank(input))
             => (ev' = "submitted" /\ error' = <<>> /\ isLoading')
       /\ (error = <<>> /\ error' # <<>>) => FailureStep]_vars

C12_Witness ==
    /\ ev = "submitted"
    /\ error = <<>>
    /\ Len(messages) = 4
    /\ includes(messages[3].content, "Sorry, I encountered an error")

\* C13: the number of sendMessage calls equals the number of user Messages; a
\* call is made only by an accepted submission, one per submission; a failure
\* and an ignored submission make none.
C13_OneRequestPerTurn ==
    [][/\ calls' = CountRole("user")'
       /\ calls' # calls
             => /\ calls' = calls + 1
                /\ ev' = "submitted"
                /\ Len(inflight') = Len(inflight) + 1
                /\ Last(inflight').stage = "fetch"
       /\ calls' = calls => Len(inflight') <= Len(inflight)
       /\ FailureStep => (calls' = calls /\ inflight' = <<>>)
       /\ ev' = "ignored" => (calls' = calls /\ inflight' = inflight)]_vars

C13_Witness ==
    /\ calls = 2
    /\ CountRole("user") = 2
    /\ ev = "ignored"
    /\ error # <<>>

\* C14: isLoading becomes false only when the pending request settles, every
\* settlement makes it false, and, when requests eventually resolve, every
\* Sending state is followed by a state that is not Sending.
C14_SendingEndsOnResolution ==
    /\ [][(isLoading /\ ~isLoading') => SettleStep]_vars
    /\ [][SettleStep => ~isLoading']_vars
    /\ isLoading ~> ~isLoading

C14_Witness ==
    /\ ev = "fetchRejected"
    /\ ~isLoading
    /\ calls = 1
    /\ error = <<"Load failed">>

\* An override is configured: the variable is set to a non-empty value.
Configured == env # <<>> /\ env[1] # ""

\* The base address the precedence rule gives for the execution context.
ExpectedBase ==
    CASE Configured -> env[1]
      [] ~Configured /\ window # <<>> /\ window[1] \notin {"localhost", "127.0.0.1"} -> ""
      [] ~Configured /\ window # <<>> /\ window[1] \in {"localhost", "127.0.0.1"}
             -> "http://localhost:8000"
      [] ~Configured /\ window = <<>> -> "http://localhost:8000"

\* C15: the base address is the configured override, else in a browser the
\* empty base off localhost and 127.0.0.1 and http://localhost:8000 on them,
\* else http://localhost:8000; the request URL is that base followed by
\* /api/chat.
C15_BaseUrlPrecedence ==
    /\ API_BASE_URL # <<>> => API_BASE_URL = <<ExpectedBase>>
    /\ url # <<>> => url = <<ExpectedBase \o "/api/chat">>

C15_Witness ==
    /\ env = <<"">>
    /\ window = <<"example.vercel.app">>
    /\ url = <<"/api/chat">>

\* c is s without its leading and trailing white space.
IsTrimOf(c, s) ==
    \E i \in 1..(Len(s) + 1) : \E j \in 0..Len(s) :
        /\ c = SubSeq(s, i, j)
        /\ IsBlank(SubSeq(s, 1, i - 1))
        /\ IsBlank(SubSeq(s, j + 1, Len(s)))
        /\ c # "" => (~IsBlank(SubSeq(c, 1, 1)) /\ ~IsBlank(SubSeq(c, Len(c), Len(c))))

\* The roles alternate from the assistant greeting on; when not Sending the
\* log has odd length and ends with an assistant Message; when Sending it
\* ends with the user Message whose content was passed to sendMessage.
RolesAlternate ==
    /\ \A k \in 1..Len(messages) :
           messages[k].role = (IF k % 2 = 1 THEN "assistant" ELSE "user")
    /\ ~isLoading => (Last(messages).role = "assistant" /\ Len(messages) % 2 = 1)
    /\ isLoading
          => /\ Last(messages).role = "user"
             /\ Len(inflight) = 1
             /\ Last(messages).content = inflight[1].message

\* C16: the roles of the log alternate, starting with the assistant greeting;
\* an idle log is of odd length and ends with an assistant Message; a Sending
\* log ends with the user Message of the pending turn, whose content is the
\* trimmed input and the text given to sendMessage.
C16_RolesAlternate ==
    [][/\ RolesAlternate'
       /\ (ev' = "submitted" /\ calls' = calls + 1)
             => /\ IsTrimOf(Last(messages').content, input)
                /\ Last(inflight').message = Last(messages').content]_vars

C16_Witness ==
    /\ isLoading
    /\ Len(messages) = 4
    /\ Last(messages).content = "hello"
    /\ inflight[1].message = "hello"

\* C17: a non-empty error implies the controller is not Sending and the log
\* ends with an assistant Message containing the error text; the error is
\* non-empty after a step exactly when the step is a failing settlement, or
\* the error was non-empty and the step accepts no submission.
C17_ErrorMatchesLastMessage ==
    [][/\ error' # <<>>
             => /\ ~isLoading'
                /\ Last(messages').role = "assistant"
                /\ includes(Last(messages').content, error'[1])
       /\ error' # <<>>
             <=> \/ FailureStep
                 \/ error # <<>> /\ ~(ev' = "submitted" /\ calls' = calls + 1)]_vars

C17_Witness ==
    /\ error = <<QuotaMessage>>
    /\ includes(Last(messages).content, QuotaMessage)
    /\ ev = "change"
    /\ ~isLoading

\* The four fixed category messages.
CategoryMessages ==
    {QuotaMessage, MissingKeyMessage, InvalidKeyMessage, RateLimitMessage}

\* C18: parseErrorMessage applied to its own result returns that result, and
\* each fixed category message is classified as itself.
C18_ClassifyIdempotent ==
    /\ reclassified # <<>> => reclassified = classified
    /\ (classified # <<>> /\ errorDetail \in CategoryMessages)
          => classified = <<errorDetail>>

C18_Witness ==
    /\ errorDetail = "401 429"
    /\ classified = <<InvalidKeyMessage>>
    /\ reclassified = <<InvalidKeyMessage>>

\* The three framings of an error text.
QuotaFraming(E) == "I'm unable to respond right now due to an API quota issue. " \o E

ConfigurationFraming(E) == "Configuration issue: " \o E

GenericFraming(E) == "Sorry, I encountered an error: " \o E \o ". Please try again."

\* C19: the quota message gets the quota framing, the missing-key and the
\* invalid-credential messages the configuration framing, the rate-limit and
\* the connectivity messages the generic framing, and any other text the
\* generic framing unless it contains 'billing' or 'API key'.
C19_FramingOfFixedMessages ==
    narration # <<>> =>
        LET E == narration[1]
            text == narration[2] IN
        /\ E = QuotaMessage => text = QuotaFraming(E)
        /\ E \in {MissingKeyMessage, InvalidKeyMessage} => text = ConfigurationFraming(E)
        /\ E \in {RateLimitMessage, ConnectivityMessage} => text = GenericFraming(E)
        /\ E \notin CategoryMessages \cup {ConnectivityMessage}
              => (text = GenericFraming(E)
                    <=> ~(includes(E, "billing") \/ includes(E, "API key")))

C19_Witness ==
    /\ classified = <<MissingKeyMessage>>
    /\ narration = <<MissingKeyMessage, "Configuration issue: " \o MissingKeyMessage>>

====
